---- MODULE Spec2Model ----
(***************************************************************************)
(* Model of tester.py, the Ford-Johnson comparison-count harness.          *)
(*                                                                         *)
(* Text is modelled as a sequence of atoms.  An atom is one character      *)
(* ("0".."9", "-", ",", " ", "x") or, inside the standard output of the    *)
(* tested executable, one of the words "Number", "of", "comparisons:".     *)
(***************************************************************************)
EXTENDS Integers, Sequences, FiniteSets, TLC

VARIABLES
    pc,                             \* position of the main program
    argv_ranges,                    \* text given to --ranges
    argv_times,                     \* text given to --times
    ranges_to_test,                 \* args.ranges
    times,                          \* args.times
    i,                              \* index of the enumerate() loop, 0-based
    maximal_number_of_comparisons,  \* the module-level global of that name
    test_inputs,                    \* the inputs generated for the class
    futures,                        \* one record per submitted run_test call
    results,                        \* comparison counts collected so far
    one_of_inputs_failed,           \* the failure flag
    stdout,                         \* what the harness printed to stdout
    stderr,                         \* what the harness printed to stderr
    exit_code,                      \* exit status of the harness, -1 = running
    completed,                      \* the class's trials in the order they finished
    snapshot,                       \* trials as_completed found finished at its start
    call                            \* one call of a pure function and its result

vars == <<pc, argv_ranges, argv_times, ranges_to_test, times, i,
          maximal_number_of_comparisons, test_inputs, futures, results,
          one_of_inputs_failed, stdout, stderr, exit_code, completed,
          snapshot, call>>

harness_vars == <<pc, argv_ranges, argv_times, ranges_to_test, times, i,
                  maximal_number_of_comparisons, test_inputs, futures, results,
                  one_of_inputs_failed, stdout, stderr, exit_code, completed,
                  snapshot>>

----------------------------------------------------------------------------
(* Bounds of the model *)

MaxN == 21          \* largest element count the bound is computed for
MaxTimes == 2       \* largest repetition count given to --times
MaxWorkers == 1     \* worker processes of the pool (os.cpu_count())
MaxCalls == 2       \* calls of the bound function kept side by side

----------------------------------------------------------------------------
(* ErrorCode *)

RETURNCODE_ERROR == 0 - 1
NO_NUMBER_OF_COMPARISONS == 0 - 2

----------------------------------------------------------------------------
(* Text helpers: what str(), int(), str.split() and the regular            *)
(* expressions do on sequences of atoms.                                   *)

DigitChars == <<"0", "1", "2", "3", "4", "5", "6", "7", "8", "9">>

IsDigit(c) == \E d \in 1..10 : DigitChars[d] = c

DigitVal(c) == (CHOOSE d \in 1..10 : DigitChars[d] = c) - 1

AllDigits(s) == \A p \in 1..Len(s) : IsDigit(s[p])

IsSpace(c) == c = " "

\* str(n) for n >= 0: the canonical decimal rendering
RECURSIVE str(_)
str(n) == IF n < 10 THEN <<DigitChars[n + 1]>>
          ELSE str(n \div 10) \o <<DigitChars[(n % 10) + 1]>>

\* int(s) for a non-empty string of digits (leading zeros allowed)
RECURSIVE int(_)
int(s) == IF Len(s) = 0 THEN 0
          ELSE 10 * int(SubSeq(s, 1, Len(s) - 1)) + DigitVal(s[Len(s)])

\* int(s) raises ValueError unless s is an optionally signed run of digits
IsIntLiteral(s) ==
    \/ Len(s) >= 1 /\ AllDigits(s)
    \/ Len(s) >= 2 /\ s[1] \in {"-", "+"} /\ AllDigits(Tail(s))

SignedInt(s) == IF s[1] = "-" THEN 0 - int(Tail(s))
                ELSE IF s[1] = "+" THEN int(Tail(s)) ELSE int(s)

\* s.split(sep): the pieces between the occurrences of the atom sep
RECURSIVE SplitOn(_, _)
SplitOn(s, sep) ==
    IF \A p \in 1..Len(s) : s[p] # sep THEN <<s>>
    ELSE LET p == CHOOSE q \in 1..Len(s) :
                      s[q] = sep /\ \A r \in 1..(q - 1) : s[r] # sep
         IN  <<SubSeq(s, 1, p - 1)>> \o SplitOn(SubSeq(s, p + 1, Len(s)), sep)

RECURSIVE LStrip(_)
LStrip(s) == IF Len(s) > 0 /\ IsSpace(s[1]) THEN LStrip(Tail(s)) ELSE s

RECURSIVE RStrip(_)
RStrip(s) == IF Len(s) > 0 /\ IsSpace(s[Len(s)])
             THEN RStrip(SubSeq(s, 1, Len(s) - 1)) ELSE s

\* s.split(): the maximal runs of non-space atoms
RECURSIVE SplitWords(_)
SplitWords(s) ==
    LET t == LStrip(s)
    IN  IF Len(t) = 0 THEN <<>>
        ELSE LET e == CHOOSE q \in 1..Len(t) :
                          /\ \A r \in 1..q : ~IsSpace(t[r])
                          /\ q = Len(t) \/ IsSpace(t[q + 1])
             IN  <<SubSeq(t, 1, e)>> \o SplitWords(SubSeq(t, e + 1, Len(t)))

----------------------------------------------------------------------------
(* calculate_number_of_maximal_comparisons *)

\* ceil(log2(num / den)) for a positive rational num / den
RECURSIVE CeilLog2(_, _)
CeilLog2(num, den) ==
    IF num > den THEN 1 + CeilLog2(num, 2 * den)
    ELSE IF 2 * num <= den THEN CeilLog2(2 * num, den) - 1
    ELSE 0

\* variant: the logarithm rounded down instead of up
BoundTerm_floor(k) == CeilLog2(3 * k, 4) - 1

\* value = (3.0 / 4.0) * k, as a fraction
value(k) == [num |-> 3 * k, den |-> 4]

\* variant: the fraction upside down, (4.0 / 3.0) * k
BoundTerm_swapped(k) == CeilLog2(4 * k, 3)

\* the term added for k: value = (3.0 / 4.0) * k, ceil(log2(value))
BoundTerm(k) == CeilLog2(value(k).num, value(k).den)

\* variant: range(1, n) instead of range(1, n + 1)
RECURSIVE BoundLoop_short(_, _, _)
BoundLoop_short(k, n, sum) ==
    IF k >= n THEN sum ELSE BoundLoop_short(k + 1, n, sum + BoundTerm(k))

RECURSIVE BoundLoop(_, _, _)
BoundLoop(k, n, sum) ==
    IF k > n THEN sum ELSE BoundLoop(k + 1, n, sum + BoundTerm(k))

calculate_number_of_maximal_comparisons(n) == BoundLoop(1, n, 0)

----------------------------------------------------------------------------
(* Argument validation: valid_range, extract_range, bigger_than_zero_int *)

\* range(start, stop) is the record [start, stop]; None is the record NoneRange
NoneRange == [none |-> TRUE]

IsNone(r) == "none" \in DOMAIN r

range(a, b) == [start |-> a, stop |-> b]

\* len(range(a, b))
RangeLen(r) == IF r.stop > r.start THEN r.stop - r.start ELSE 0

\* variant: only None is false
Truthy_not_none(r) == ~IsNone(r)

\* bool(r): None and the empty range are false
Truthy(r) == ~IsNone(r) /\ RangeLen(r) > 0

extract_range(range_str) ==
    LET range_list == SplitOn(range_str, "-")
    IN  IF range_list[1] = range_list[2] THEN NoneRange
        ELSE range(int(range_list[1]), int(range_list[2]))

\* \d+-\d+
MatchesRangeItem(s) ==
    LET parts == SplitOn(s, "-")
    IN  /\ Len(parts) = 2
        /\ Len(parts[1]) >= 1 /\ AllDigits(parts[1])
        /\ Len(parts[2]) >= 1 /\ AllDigits(parts[2])

\* re.fullmatch(r"^\d+-\d+(?:,\s*\d+-\d+)*$", input_range)
MatchesRangePattern(input_range) ==
    LET pieces == SplitOn(input_range, ",")
    IN  /\ MatchesRangeItem(pieces[1])
        /\ \A p \in 2..Len(pieces) : MatchesRangeItem(LStrip(pieces[p]))

\* re.split(r"\s*,\s*", input_range)
SplitRanges(input_range) ==
    LET pieces == SplitOn(input_range, ",")
    IN  [p \in 1..Len(pieces) |-> RStrip(LStrip(pieces[p]))]

ExtractedRanges(input_range) ==
    LET strs == SplitRanges(input_range)
    IN  [p \in 1..Len(strs) |-> extract_range(strs[p])]

\* TRUE iff valid_range returns instead of raising ArgumentTypeError
valid_range_accepts(input_range) ==
    /\ MatchesRangePattern(input_range)
    /\ \A p \in 1..Len(ExtractedRanges(input_range)) :
           Truthy(ExtractedRanges(input_range)[p])

valid_range(input_range) == ExtractedRanges(input_range)

\* variant: res < 0 instead of res <= 0
bigger_than_zero_int_accepts_zero(t) == IsIntLiteral(t) /\ ~(SignedInt(t) < 0)

\* TRUE iff bigger_than_zero_int returns instead of raising ArgumentTypeError
bigger_than_zero_int_accepts(t) == IsIntLiteral(t) /\ ~(SignedInt(t) <= 0)

bigger_than_zero_int(t) == SignedInt(t)

----------------------------------------------------------------------------
(* create_test_input *)

\* list(test_range)
RangeList(r) == [p \in 1..RangeLen(r) |-> r.start + p - 1]

\* variant: x[a] = x[b] without the exchange
Swap_assign(x, a, b) == [x EXCEPT ![a] = x[b]]

Swap(x, a, b) == [x EXCEPT ![a] = x[b], ![b] = x[a]]

\* random.shuffle(x): for i from len(x) - 1 down to 1, j = randbelow(i + 1),
\* x[i], x[j] = x[j], x[i].  The set of lists it can leave behind; i is the
\* 0-based index of the source.
RECURSIVE ShuffleFrom(_, _)
ShuffleFrom(x, idx) ==
    IF idx < 1 THEN {x}
    ELSE UNION { ShuffleFrom(Swap(x, idx + 1, j + 1), idx - 1) : j \in 0..idx }

shuffle(x) == ShuffleFrom(x, Len(x) - 1)

\* every list create_test_input(test_range) can return
create_test_input(test_range) ==
    { [p \in 1..Len(res) |-> str(res[p])] : res \in shuffle(RangeList(test_range)) }

----------------------------------------------------------------------------
(* run_test *)

ReportPrefix == <<"Number", " ", "of", " ", "comparisons:", " ">>

\* ^Number of comparisons: [0-9]+$ on one line of the output
MatchesReportLine(line) ==
    /\ Len(line) > Len(ReportPrefix)
    /\ SubSeq(line, 1, Len(ReportPrefix)) = ReportPrefix
    /\ AllDigits(SubSeq(line, Len(ReportPrefix) + 1, Len(line)))

\* re.search(..., re.MULTILINE): index of the first matching line, 0 if none
RECURSIVE SearchFrom(_, _)
SearchFrom(lines, p) ==
    IF p > Len(lines) THEN 0
    ELSE IF MatchesReportLine(lines[p]) THEN p
    ELSE SearchFrom(lines, p + 1)

found_pattern(lines) == SearchFrom(lines, 1)

executable_path == <<"PmergeMe">>

\* variant: the report line is looked for before the exit status is tested
run_test_search_first(test_input, returncode, out) ==
    LET args   == <<executable_path>> \o test_input
        inputs == Tail(args)
    IN  IF found_pattern(out) # 0
        THEN [result |-> int(SplitWords(out[found_pattern(out)])[4]),
              inputs |-> inputs, returncode |-> returncode]
        ELSE IF returncode # 0
        THEN [result |-> RETURNCODE_ERROR, inputs |-> inputs,
              returncode |-> returncode]
        ELSE [result |-> NO_NUMBER_OF_COMPARISONS, inputs |-> inputs,
              returncode |-> returncode]

\* variant: the pattern is -?[0-9]+, so a negative count is read as a result
run_test_signed(test_input, returncode, out) ==
    LET args   == <<executable_path>> \o test_input
        inputs == Tail(args)
        hits   == { q \in 1..Len(out) :
                        /\ Len(out[q]) > Len(ReportPrefix)
                        /\ SubSeq(out[q], 1, Len(ReportPrefix)) = ReportPrefix
                        /\ IsIntLiteral(SubSeq(out[q], Len(ReportPrefix) + 1,
                                               Len(out[q])))
                        /\ out[q][Len(ReportPrefix) + 1] # "+" }
        first  == CHOOSE q \in hits : \A q2 \in hits : q <= q2
    IN  IF returncode # 0
        THEN [result |-> RETURNCODE_ERROR, inputs |-> inputs,
              returncode |-> returncode]
        ELSE IF hits = {}
        THEN [result |-> NO_NUMBER_OF_COMPARISONS, inputs |-> inputs,
              returncode |-> returncode]
        ELSE [result |-> SignedInt(SubSeq(out[first], Len(ReportPrefix) + 1,
                                          Len(out[first]))),
              inputs |-> inputs, returncode |-> returncode]

\* the value run_test returns when the process ends with the given exit
\* status and standard output
run_test(test_input, returncode, out) ==
    LET args   == <<executable_path>> \o test_input
        inputs == Tail(args)
    IN  IF returncode # 0
        THEN [result |-> RETURNCODE_ERROR, inputs |-> inputs,
              returncode |-> returncode]
        ELSE IF found_pattern(out) = 0
        THEN [result |-> NO_NUMBER_OF_COMPARISONS, inputs |-> inputs,
              returncode |-> returncode]
        ELSE [result |-> int(SplitWords(out[found_pattern(out)])[4]),
              inputs |-> inputs, returncode |-> returncode]

----------------------------------------------------------------------------
(* format_result and the aggregation of lines 215-232 *)

\* a number as a fraction: an int n is n / 1, sum(results) / len(results)
\* keeps its numerator and denominator
Whole(n) == [num |-> n, den |-> 1]

\* variant: <= instead of <
Exceeds_or_equal(maximal, result) == maximal * result.den <= result.num

\* maximal_number_of_comparisons < result
Exceeds(maximal, result) == maximal * result.den < result.num

format_result(label, result, okcolor, maximal) ==
    IF Exceeds(maximal, result)
    THEN [label |-> label, result |-> result, color |-> "FAIL", tag |-> "FAIL"]
    ELSE [label |-> label, result |-> result, color |-> okcolor, tag |-> "OK"]

\* variant: the last element instead of the largest
max_last(xs) == xs[Len(xs)]

\* variant: the first element instead of the smallest
min_first(xs) == xs[1]

\* max(results), min(results), sum(results): folds from the left
RECURSIVE max(_)
max(xs) == IF Len(xs) = 1 THEN xs[1]
           ELSE LET m == max(SubSeq(xs, 1, Len(xs) - 1))
                IN  IF xs[Len(xs)] > m THEN xs[Len(xs)] ELSE m

RECURSIVE min(_)
min(xs) == IF Len(xs) = 1 THEN xs[1]
           ELSE LET m == min(SubSeq(xs, 1, Len(xs) - 1))
                IN  IF xs[Len(xs)] < m THEN xs[Len(xs)] ELSE m

RECURSIVE sum(_)
sum(xs) == IF Len(xs) = 0 THEN 0
           ELSE sum(SubSeq(xs, 1, Len(xs) - 1)) + xs[Len(xs)]

worst_result(xs) == max(xs)

best_result(xs) == min(xs)

average_result(xs) == [num |-> sum(xs), den |-> Len(xs)]

\* the four lines printed for a class
ClassReport(n, maximal, xs) ==
    [kind    |-> "report",
     n       |-> n,
     maximal |-> maximal,
     worst   |-> format_result("Worst result:", Whole(worst_result(xs)), "OKGREEN", maximal),
     best    |-> format_result("Best result:", Whole(best_result(xs)), "OKBLUE", maximal),
     average |-> format_result("Average result:", average_result(xs), "OKCYAN", maximal)]

----------------------------------------------------------------------------
(* What the environment can supply *)

\* texts given to --ranges: one or two classes, well-formed or not
RangesArgs ==
    { <<"0", "-", "1">>,
      <<"9", "-", "1", "1">>,
      <<"8", "-", "1", "1">>,
      <<"0", "-", "1", ",", " ", "9", "-", "1", "1">>,
      <<"9", "-", "1", "1", ",", "0", "-", "1">>,
      <<"5", "-", "0", "5">>,
      <<"2", "-", "2">>,
      <<"3", "-", "1">>,
      <<"0", "-", "1", ",", " ", "2", "-", "2">>,
      <<"0", "-", "1", " ", ",", "9", "-", "1", "1">>,
      <<"-", "1">>,
      <<"0", "-", "1", "-", "2">>,
      <<"x", "-", "1">> }

TimesArgs ==
    { str(t) : t \in 0..MaxTimes } \cup { <<"-", "1">>, <<"x">> }

ReportLine(n) == ReportPrefix \o str(n)

\* standard outputs of the tested executable
Stdouts ==
    { <<>>,
      << <<"x">> >>,
      << ReportLine(2) \o <<"x">> >>,
      << <<" ">> \o ReportLine(2) >>,
      << ReportLine(0) >>,
      << <<"x">>, ReportLine(1), ReportLine(0) >>,
      << ReportPrefix \o <<"-", "1">> >> }

\* exit statuses of the tested executable
ReturnCodes == {0, 2}

----------------------------------------------------------------------------
(* The main program *)

NoReturn == [result |-> 0, inputs |-> <<>>, returncode |-> 0]

Init ==
    /\ pc = "parse_args"
    /\ argv_ranges \in RangesArgs
    /\ argv_times \in TimesArgs
    /\ ranges_to_test = <<>>
    /\ times = 0
    /\ i = 0
    /\ maximal_number_of_comparisons = 0
    /\ test_inputs = <<>>
    /\ futures = <<>>
    /\ results = <<>>
    /\ one_of_inputs_failed = FALSE
    /\ stdout = <<>>
    /\ stderr = <<>>
    /\ exit_code = 0 - 1
    /\ completed = <<>>
    /\ snapshot = {}
    /\ call = <<>>

\* lines 176-178: parser.parse_args() applies valid_range and
\* bigger_than_zero_int; an ArgumentTypeError ends the program with status 2
ParseArgs ==
    /\ pc = "parse_args"
    /\ IF valid_range_accepts(argv_ranges) /\ bigger_than_zero_int_accepts(argv_times)
       THEN /\ ranges_to_test' = valid_range(argv_ranges)
            /\ times' = bigger_than_zero_int(argv_times)
            /\ pc' = "for"
            /\ UNCHANGED <<stderr, exit_code>>
       ELSE /\ stderr' = Append(stderr, [kind |-> "usage"])
            /\ exit_code' = 2
            /\ pc' = "exited"
            /\ UNCHANGED <<ranges_to_test, times>>
    /\ UNCHANGED <<argv_ranges, argv_times, i, maximal_number_of_comparisons,
                   test_inputs, futures, results, one_of_inputs_failed, stdout, call,
                   completed, snapshot>>

\* lines 180-186: the next range is taken, its bound computed, its inputs
\* generated and one run_test call per input submitted to a new pool
StartClass ==
    /\ pc = "for"
    /\ i < Len(ranges_to_test)
    /\ LET test_range == ranges_to_test[i + 1]
       IN  /\ stdout' = Append(stdout, [kind |-> "testing", n |-> RangeLen(test_range)])
           /\ maximal_number_of_comparisons' =
                  calculate_number_of_maximal_comparisons(RangeLen(test_range))
           /\ test_inputs' \in [1..times -> create_test_input(test_range)]
    /\ results' = <<>>
    /\ futures' = [k \in 1..times |->
                      [state |-> "PENDING", yielded |-> FALSE,
                       test_input |-> test_inputs'[k], ret |-> NoReturn]]
    /\ completed' = <<>>
    /\ snapshot' = {}
    /\ pc' = "submitted"
    /\ UNCHANGED <<argv_ranges, argv_times, ranges_to_test, times, i,
                   one_of_inputs_failed, stderr, exit_code, call>>

\* line 187: the loop asks as_completed for its first future; as_completed
\* notes which futures are finished already and waits for the others
AsCompleted ==
    /\ pc = "submitted"
    /\ snapshot' = { k \in 1..Len(futures) : futures[k].state = "FINISHED" }
    /\ pc' = "as_completed"
    /\ UNCHANGED <<argv_ranges, argv_times, ranges_to_test, times, i,
                   maximal_number_of_comparisons, test_inputs, futures, results,
                   one_of_inputs_failed, stdout, stderr, exit_code, completed, call>>

Running == { k \in 1..Len(futures) : futures[k].state = "RUNNING" }

\* variant: a pool that is being shut down takes no more calls
WorkerStart_until_shutdown(k) ==
    /\ pc \in {"submitted", "as_completed"}
    /\ futures[k].state = "PENDING"
    /\ \A j \in 1..(k - 1) : futures[j].state # "PENDING"
    /\ Cardinality(Running) < MaxWorkers
    /\ futures' = [futures EXCEPT ![k].state = "RUNNING"]
    /\ UNCHANGED <<pc, argv_ranges, argv_times, ranges_to_test, times, i,
                   maximal_number_of_comparisons, test_inputs, results,
                   one_of_inputs_failed, stdout, stderr, exit_code, call,
                   completed, snapshot>>

\* a free worker of the pool takes the oldest pending call and launches the
\* executable (line 119); the pool keeps doing so while it is being shut down
WorkerStart(k) ==
    /\ pc \in {"submitted", "as_completed", "shutdown"}
    /\ futures[k].state = "PENDING"
    /\ \A j \in 1..(k - 1) : futures[j].state # "PENDING"
    /\ Cardinality(Running) < MaxWorkers
    /\ futures' = [futures EXCEPT ![k].state = "RUNNING"]
    /\ UNCHANGED <<pc, argv_ranges, argv_times, ranges_to_test, times, i,
                   maximal_number_of_comparisons, test_inputs, results,
                   one_of_inputs_failed, stdout, stderr, exit_code, call,
                   completed, snapshot>>

\* the executable ends and run_test returns (lines 126-135)
WorkerFinish(k) ==
    /\ pc \in {"submitted", "as_completed", "shutdown"}
    /\ futures[k].state = "RUNNING"
    /\ \E returncode \in ReturnCodes, out \in Stdouts :
           futures' = [futures EXCEPT
                          ![k].state = "FINISHED",
                          ![k].ret = run_test(futures[k].test_input, returncode, out)]
    /\ completed' = Append(completed, k)
    /\ UNCHANGED <<pc, argv_ranges, argv_times, ranges_to_test, times, i,
                   maximal_number_of_comparisons, test_inputs, results,
                   one_of_inputs_failed, stdout, stderr, exit_code, call,
                   snapshot>>

\* the futures that finished after as_completed started, oldest first, that
\* the loop has not been given yet
IsWaiting(k) == k \notin snapshot /\ ~futures[k].yielded

Waiting == SelectSeq(completed, IsWaiting)

\* variant: any finished future may be given next
NextYield_any(k) == TRUE

\* the future as_completed gives next: those of the snapshot in no particular
\* order, then the others in the order they finished
NextYield(k) ==
    IF \E j \in snapshot : ~futures[j].yielded
    THEN k \in snapshot
    ELSE Waiting # <<>> /\ k = Head(Waiting)

\* variant: the missing report line is reported but exit(1) is not called
Collect_no_exit(k) ==
    /\ pc = "as_completed"
    /\ futures[k].state = "FINISHED"
    /\ ~futures[k].yielded
    /\ NextYield(k)
    /\ futures' = [futures EXCEPT ![k].yielded = TRUE]
    /\ LET result     == futures[k].ret.result
           inputs     == futures[k].ret.inputs
           returncode == futures[k].ret.returncode
       IN  IF result = RETURNCODE_ERROR
           THEN /\ stderr' = Append(stderr, [kind |-> "executable_failed",
                                             returncode |-> returncode,
                                             inputs |-> inputs])
                /\ pc' = "shutdown"
                /\ UNCHANGED <<results, one_of_inputs_failed>>
           ELSE IF result = NO_NUMBER_OF_COMPARISONS
           THEN /\ stderr' = Append(stderr, [kind |-> "modify_executable"])
                /\ pc' = "as_completed"
                /\ UNCHANGED <<results, one_of_inputs_failed>>
           ELSE /\ IF result > maximal_number_of_comparisons
                   THEN /\ stderr' = Append(stderr, [kind |-> "exceeded",
                                                     inputs |-> inputs])
                        /\ one_of_inputs_failed' = TRUE
                   ELSE UNCHANGED <<stderr, one_of_inputs_failed>>
                /\ results' = Append(results, result)
                /\ pc' = "as_completed"
    /\ UNCHANGED <<argv_ranges, argv_times, ranges_to_test, times, i,
                   maximal_number_of_comparisons, test_inputs, stdout,
                   exit_code, call,
                   completed, snapshot>>

\* variant: the flag is assigned the outcome of every comparison
Collect_reassign(k) ==
    /\ pc = "as_completed"
    /\ futures[k].state = "FINISHED"
    /\ ~futures[k].yielded
    /\ NextYield(k)
    /\ futures' = [futures EXCEPT ![k].yielded = TRUE]
    /\ LET result     == futures[k].ret.result
           inputs     == futures[k].ret.inputs
           returncode == futures[k].ret.returncode
       IN  IF result = RETURNCODE_ERROR
           THEN /\ stderr' = Append(stderr, [kind |-> "executable_failed",
                                             returncode |-> returncode,
                                             inputs |-> inputs])
                /\ pc' = "shutdown"
                /\ UNCHANGED <<results, one_of_inputs_failed>>
           ELSE IF result = NO_NUMBER_OF_COMPARISONS
           THEN /\ stderr' = Append(stderr, [kind |-> "modify_executable"])
                /\ pc' = "shutdown"
                /\ UNCHANGED <<results, one_of_inputs_failed>>
           ELSE /\ IF result > maximal_number_of_comparisons
                   THEN /\ stderr' = Append(stderr, [kind |-> "exceeded",
                                                     inputs |-> inputs])
                        /\ one_of_inputs_failed' = TRUE
                   ELSE /\ one_of_inputs_failed' = FALSE
                        /\ UNCHANGED stderr
                /\ results' = Append(results, result)
                /\ pc' = "as_completed"
    /\ UNCHANGED <<argv_ranges, argv_times, ranges_to_test, times, i,
                   maximal_number_of_comparisons, test_inputs, stdout,
                   exit_code, call,
                   completed, snapshot>>

\* lines 187-213: as_completed yields a finished future and the match
\* statement handles its result
Collect(k) ==
    /\ pc = "as_completed"
    /\ futures[k].state = "FINISHED"
    /\ ~futures[k].yielded
    /\ NextYield(k)
    /\ futures' = [futures EXCEPT ![k].yielded = TRUE]
    /\ LET result     == futures[k].ret.result
           inputs     == futures[k].ret.inputs
           returncode == futures[k].ret.returncode
       IN  IF result = RETURNCODE_ERROR
           THEN /\ stderr' = Append(stderr, [kind |-> "executable_failed",
                                             returncode |-> returncode,
                                             inputs |-> inputs])
                /\ pc' = "shutdown"
                /\ UNCHANGED <<results, one_of_inputs_failed>>
           ELSE IF result = NO_NUMBER_OF_COMPARISONS
           THEN /\ stderr' = Append(stderr, [kind |-> "modify_executable"])
                /\ pc' = "shutdown"
                /\ UNCHANGED <<results, one_of_inputs_failed>>
           ELSE /\ IF result > maximal_number_of_comparisons
                   THEN /\ stderr' = Append(stderr, [kind |-> "exceeded",
                                                     inputs |-> inputs])
                        /\ one_of_inputs_failed' = TRUE
                   ELSE UNCHANGED <<stderr, one_of_inputs_failed>>
                /\ results' = Append(results, result)
                /\ pc' = "as_completed"
    /\ UNCHANGED <<argv_ranges, argv_times, ranges_to_test, times, i,
                   maximal_number_of_comparisons, test_inputs, stdout,
                   exit_code, call,
                   completed, snapshot>>

AllFinished == \A k \in 1..Len(futures) : futures[k].state = "FINISHED"

\* variant: the block is left as soon as one trial has been collected
AllYielded_some == \E k \in 1..Len(futures) : futures[k].yielded

AllYielded == \A k \in 1..Len(futures) : futures[k].yielded

\* lines 196 and 204: exit(1) raised inside the with block; the pool's
\* __exit__ waits for every submitted call, then the program ends
ExitFatal ==
    /\ pc = "shutdown"
    /\ AllFinished
    /\ exit_code' = 1
    /\ pc' = "exited"
    /\ UNCHANGED <<argv_ranges, argv_times, ranges_to_test, times, i,
                   maximal_number_of_comparisons, test_inputs, futures, results,
                   one_of_inputs_failed, stdout, stderr, call,
                   completed, snapshot>>

\* line 187 and the end of the with block: as_completed is exhausted and
\* what it kept is dropped
EndWith ==
    /\ pc = "as_completed"
    /\ AllYielded
    /\ completed' = <<>>
    /\ snapshot' = {}
    /\ pc' = "aggregate"
    /\ UNCHANGED <<argv_ranges, argv_times, ranges_to_test, times, i,
                   maximal_number_of_comparisons, test_inputs, futures, results,
                   one_of_inputs_failed, stdout, stderr, exit_code, call>>

\* lines 215-234: the class's report; max() of an empty list raises ValueError
Report ==
    /\ pc = "aggregate"
    /\ IF results = <<>>
       THEN /\ stderr' = Append(stderr, [kind |-> "traceback"])
            /\ exit_code' = 1
            /\ pc' = "exited"
            /\ UNCHANGED <<stdout, i>>
       ELSE /\ stdout' = stdout
                  \o << ClassReport(RangeLen(ranges_to_test[i + 1]),
                                    maximal_number_of_comparisons, results) >>
                  \o (IF i # Len(ranges_to_test) - 1
                      THEN << [kind |-> "blank"] >> ELSE <<>>)
            /\ i' = i + 1
            /\ pc' = "for"
            /\ UNCHANGED <<stderr, exit_code>>
    /\ UNCHANGED <<argv_ranges, argv_times, ranges_to_test, times,
                   maximal_number_of_comparisons, test_inputs, futures, results,
                   one_of_inputs_failed, call,
                   completed, snapshot>>

\* variant: the failure is printed but exit(1) is not called
Verdict_exit_zero ==
    /\ pc = "for"
    /\ i = Len(ranges_to_test)
    /\ IF one_of_inputs_failed
       THEN stdout' = Append(stdout, [kind |-> "SOME OF THE TESTS FAILED"])
       ELSE stdout' = Append(stdout, [kind |-> "ALL OF THE TESTS PASSED"])
    /\ exit_code' = 0
    /\ pc' = "exited"
    /\ UNCHANGED <<argv_ranges, argv_times, ranges_to_test, times, i,
                   maximal_number_of_comparisons, test_inputs, futures, results,
                   one_of_inputs_failed, stderr, call,
                   completed, snapshot>>

\* lines 236-240
Verdict ==
    /\ pc = "for"
    /\ i = Len(ranges_to_test)
    /\ IF one_of_inputs_failed
       THEN /\ stdout' = Append(stdout, [kind |-> "SOME OF THE TESTS FAILED"])
            /\ exit_code' = 1
       ELSE /\ stdout' = Append(stdout, [kind |-> "ALL OF THE TESTS PASSED"])
            /\ exit_code' = 0
    /\ pc' = "exited"
    /\ UNCHANGED <<argv_ranges, argv_times, ranges_to_test, times, i,
                   maximal_number_of_comparisons, test_inputs, futures, results,
                   one_of_inputs_failed, stderr, call,
                   completed, snapshot>>

Next ==
    \/ ParseArgs
    \/ StartClass
    \/ AsCompleted
    \/ \E k \in 1..Len(futures) : WorkerStart(k)
    \/ \E k \in 1..Len(futures) : WorkerFinish(k)
    \/ \E k \in 1..Len(futures) : Collect(k)
    \/ ExitFatal
    \/ EndWith
    \/ Report
    \/ Verdict

Spec == Init /\ [][Next]_vars

\* the main program keeps running, free workers take pending calls and every
\* launched executable ends: no step that can be taken is put off for ever
LiveSpec == Spec /\ WF_vars(Next)

----------------------------------------------------------------------------
(* The pure functions, called on their own.  The main program stays where  *)
(* it is; call holds the calls made so far with their return values.       *)

InitPure ==
    /\ pc = "pure"
    /\ argv_ranges = <<>>
    /\ argv_times = <<>>
    /\ ranges_to_test = <<>>
    /\ times = 0
    /\ i = 0
    /\ maximal_number_of_comparisons = 0
    /\ test_inputs = <<>>
    /\ futures = <<>>
    /\ results = <<>>
    /\ one_of_inputs_failed = FALSE
    /\ stdout = <<>>
    /\ stderr = <<>>
    /\ exit_code = 0 - 1
    /\ completed = <<>>
    /\ snapshot = {}
    /\ call = <<>>

\* calculate_number_of_maximal_comparisons(n) is called
CallBound(n) ==
    /\ Len(call) < MaxCalls
    /\ call' = Append(call, [n |-> n, ret |-> calculate_number_of_maximal_comparisons(n)])
    /\ UNCHANGED harness_vars

NextBound == \E n \in 0..MaxN : CallBound(n)

SpecBound == InitPure /\ [][NextBound]_vars

\* argument lists handed to the tested executable
RunTestInputs ==
    { <<>>, << <<"0">> >>, << <<"9">>, <<"1", "0">> >>, << <<"1", "0">>, <<"9">> >> }

\* exit statuses: success, failure, death by a signal
RunTestReturnCodes == {0, 1, 2, 0 - 11}

\* standard outputs: report lines, near misses and other text
RunTestStdouts ==
    Stdouts \cup
    { << ReportLine(12) >>,
      << ReportPrefix \o <<"0", "0", "7">> >>,
      << ReportPrefix >>,
      << ReportPrefix \o <<"-", "1">> >>,
      << ReportPrefix \o <<"5", " ">> >>,
      << <<"Number", " ", "of", " ", "comparisons:">> \o <<"5">> >>,
      << <<"x">>, <<>>, ReportLine(40), ReportLine(3) >>,
      << ReportLine(3) \o <<"x">>, ReportLine(66) >> }

\* run_test is called and the executable behaves as chosen
CallRunTest(test_input, returncode, out) ==
    /\ call = <<>>
    /\ call' = << [test_input |-> test_input, returncode |-> returncode,
                   stdout |-> out, ret |-> run_test(test_input, returncode, out)] >>
    /\ UNCHANGED harness_vars

NextRunTest ==
    \E test_input \in RunTestInputs, returncode \in RunTestReturnCodes,
       out \in RunTestStdouts : CallRunTest(test_input, returncode, out)

SpecRunTest == InitPure /\ [][NextRunTest]_vars

----------------------------------------------------------------------------
(* Reference notions the properties are stated with *)

DigitSet == {"0", "1", "2", "3", "4", "5", "6", "7", "8", "9"}

\* the number a string of decimal digits denotes, most significant digit first
RECURSIVE DecimalValue(_)
DecimalValue(ds) ==
    IF Len(ds) = 0 THEN 0
    ELSE DigitVal(Head(ds)) * 10 ^ (Len(ds) - 1) + DecimalValue(Tail(ds))

\* the least integer j with 4 * 2^j >= 3k, where 4 * 2^j = 2^(j + 2)
LeastExponent(k) ==
    CHOOSE j \in (0 - 2)..MaxN :
        /\ 2 ^ (j + 2) >= 3 * k
        /\ \A j2 \in (0 - 2)..(j - 1) : 2 ^ (j2 + 2) < 3 * k

RECURSIVE ReferenceSum(_)
ReferenceSum(n) == IF n = 0 THEN 0 ELSE ReferenceSum(n - 1) + LeastExponent(n)

\* a line "Number of comparisons: <digits>" and nothing else
IsReportLine(line) ==
    /\ Len(line) >= 7
    /\ \A q \in 1..Len(line) :
           IF q <= 6 THEN line[q] = ReportPrefix[q] ELSE line[q] \in DigitSet

----------------------------------------------------------------------------
(* Properties of run_test, checked under SpecRunTest *)

\* C4: run_test classifies in strict priority order: a non-zero exit status
\* gives RETURNCODE_ERROR whatever the output holds; otherwise an output
\* without a report line gives NO_NUMBER_OF_COMPARISONS; otherwise the result
\* is the non-negative number on the first report line.  The returned inputs
\* are always the input passed in.
C4_RunTestClassifies ==
    \A c \in 1..Len(call) :
        LET r       == call[c]
            matches == { q \in 1..Len(r.stdout) : IsReportLine(r.stdout[q]) }
        IN  /\ r.ret.inputs = r.test_input
            /\ r.ret.returncode = r.returncode
            /\ r.returncode # 0 => r.ret.result = RETURNCODE_ERROR
            /\ (r.returncode = 0 /\ matches = {})
                   => r.ret.result = NO_NUMBER_OF_COMPARISONS
            /\ (r.returncode = 0 /\ matches # {})
                   => LET first == CHOOSE q \in matches : \A q2 \in matches : q <= q2
                          line  == r.stdout[first]
                      IN  /\ r.ret.result = DecimalValue(SubSeq(line, 7, Len(line)))
                          /\ r.ret.result >= 0

\* a failed process whose output nevertheless holds a report line
C4_Witness ==
    \E c \in 1..Len(call) :
        /\ call[c].returncode # 0
        /\ \E q \in 1..Len(call[c].stdout) : IsReportLine(call[c].stdout[q])
        /\ call[c].ret.result = RETURNCODE_ERROR
        /\ Len(call[c].test_input) = 2

----------------------------------------------------------------------------
(* Properties of calculate_number_of_maximal_comparisons, under SpecBound *)

\* C5: for n >= 1 the bound is the sum over k = 1..n of the least j with
\* 4 * 2^j >= 3k; F(1)=0, F(2)=1, F(3)=3, F(4)=5, F(5)=7, F(21)=66.
C5_BoundIsReferenceSum ==
    \A c \in 1..Len(call) :
        /\ call[c].n >= 1 => call[c].ret = ReferenceSum(call[c].n)
        /\ call[c].n = 1 => call[c].ret = 0
        /\ call[c].n = 2 => call[c].ret = 1
        /\ call[c].n = 3 => call[c].ret = 3
        /\ call[c].n = 4 => call[c].ret = 5
        /\ call[c].n = 5 => call[c].ret = 7
        /\ call[c].n = 21 => call[c].ret = 66

C5_Witness == \E c \in 1..Len(call) : call[c].n = 21 /\ call[c].ret = 66

\* C6: the bound of 0 is 0 and the bound never decreases when n grows.
C6_BoundMonotone ==
    /\ \A c \in 1..Len(call) : call[c].n = 0 => call[c].ret = 0
    /\ \A c, d \in 1..Len(call) :
           call[c].n <= call[d].n => call[c].ret <= call[d].ret

C6_Witness ==
    \E c, d \in 1..Len(call) :
        /\ call[c].n = 0 /\ call[c].ret = 0
        /\ call[d].n = 1 /\ call[d].ret = 0

----------------------------------------------------------------------------
(* Properties of the main program, checked under Spec *)

\* the arguments were accepted: the program got past parse_args
Accepted == pc # "parse_args" /\ exit_code # 2

IsFatal(result) == result \in {RETURNCODE_ERROR, NO_NUMBER_OF_COMPARISONS}

\* some trial of the class ended as a process or parse failure
FatalTrial ==
    \E k \in 1..Len(futures) :
        futures[k].state = "FINISHED" /\ IsFatal(futures[k].ret.result)

\* the main loop has collected such a trial
FatalCollected ==
    \E k \in 1..Len(futures) : futures[k].yielded /\ IsFatal(futures[k].ret.result)

IsReport(e) == e.kind = "report"

\* the class reports printed so far, first class first
Reports == SelectSeq(stdout, IsReport)

\* the bound of the j-th configured class
ClassBound(j) == ReferenceSum(ranges_to_test[j].stop - ranges_to_test[j].start)

\* the class whose trials are in futures, while its trials are being handled
InClass == pc \in {"submitted", "as_completed", "shutdown", "aggregate"}

\* C1: with valid arguments the harness exits with 0 iff no trial was a
\* process or parse failure and the worst count of every class is within
\* that class's bound, and with 1 in every other case.
C1_ExitCode ==
    (pc = "exited" /\ Accepted) =>
        /\ exit_code \in {0, 1}
        /\ exit_code = 0 <=>
               /\ ~FatalTrial
               /\ \A j \in 1..Len(Reports) :
                      Reports[j].worst.result.num <= ClassBound(j)
        /\ exit_code = 0 => Len(Reports) = Len(ranges_to_test)

\* two classes, the first within its bound, the second not, no failure
C1_Witness ==
    /\ pc = "exited" /\ exit_code = 1 /\ ~FatalTrial
    /\ Len(Reports) = 2
    /\ Reports[1].worst.result.num <= ClassBound(1)
    /\ Reports[2].worst.result.num > ClassBound(2)

\* C2: once a process or parse failure of class i has been collected, no
\* later class is started (its inputs are never generated, its trials never
\* submitted), nothing more is printed to stdout, so no report of class i or
\* of a later class appears, and the program can only end with status 1.
C2_FatalAborts ==
    /\ [](FatalCollected =>
            /\ Len(Reports) = i
            /\ pc \in {"shutdown", "exited"}
            /\ pc = "exited" => exit_code = 1)
    /\ [][FatalCollected =>
            /\ i' = i
            /\ test_inputs' = test_inputs
            /\ Len(futures') = Len(futures)
            /\ \A k \in 1..Len(futures) :
                   futures'[k].test_input = futures[k].test_input
            /\ stdout' = stdout
            /\ exit_code' \in {exit_code, 1}]_vars

\* a failure in the first of two classes, and the program has ended
C2_Witness ==
    /\ pc = "exited" /\ FatalCollected
    /\ i = 0 /\ Len(ranges_to_test) = 2
    /\ exit_code = 1

\* C3: a count above the bound is not fatal: it is appended to results, a
\* warning with the trial's input goes to stderr, the flag is set and never
\* cleared, every class is still run and reported, and the exit status is 1.
C3_ExceededIsNotFatal ==
    /\ [](\A k \in 1..Len(futures) :
            (/\ futures[k].yielded
             /\ ~IsFatal(futures[k].ret.result)
             /\ futures[k].ret.result > maximal_number_of_comparisons)
            => /\ \E q \in 1..Len(results) : results[q] = futures[k].ret.result
               /\ \E q \in 1..Len(stderr) :
                      /\ stderr[q].kind = "exceeded"
                      /\ stderr[q].inputs = futures[k].test_input
               /\ one_of_inputs_failed)
    /\ [][one_of_inputs_failed => one_of_inputs_failed']_vars
    /\ []((pc = "exited" /\ one_of_inputs_failed) => exit_code = 1)
    /\ []((pc = "exited" /\ Accepted /\ ~FatalCollected)
            => Len(Reports) = Len(ranges_to_test))

\* the first class exceeded its bound, the second was run and reported
C3_Witness ==
    /\ pc = "exited" /\ exit_code = 1 /\ one_of_inputs_failed
    /\ Len(Reports) = 2
    /\ Reports[1].worst.tag = "FAIL"
    /\ Reports[2].worst.tag = "OK"
    /\ Len(results) = 2

\* the values of a list of tokens
TokenValues(input) == { DecimalValue(input[q]) : q \in 1..Len(input) }

\* C7: every input generated for a class has exactly end - start tokens,
\* pairwise distinct, whose values are exactly start .. end - 1.
C7_InputsArePermutations ==
    InClass =>
        LET test_range == ranges_to_test[i + 1]
        IN  /\ Len(test_inputs) = times
            /\ \A k \in 1..Len(test_inputs) :
                   /\ Len(test_inputs[k]) = test_range.stop - test_range.start
                   /\ \A q, r \in 1..Len(test_inputs[k]) :
                          q # r => test_inputs[k][q] # test_inputs[k][r]
                   /\ TokenValues(test_inputs[k]) =
                          test_range.start..(test_range.stop - 1)
                   /\ futures[k].test_input = test_inputs[k]

\* two inputs of a three-element class, shuffled differently
C7_Witness ==
    /\ InClass
    /\ Len(test_inputs) = 2
    /\ test_inputs[1] = << <<"1", "0">>, <<"8">>, <<"9">> >>
    /\ test_inputs[2] = << <<"9">>, <<"1", "0">>, <<"8">> >>

\* the permutations of 1..n
Perms(n) == { p \in [1..n -> 1..n] : \A a, b \in 1..n : a # b => p[a] # p[b] }

\* the counts of the class in submission order
SubmittedCounts == [k \in 1..Len(futures) |-> futures[k].ret.result]

\* C8: the report of a class and the flag do not depend on the order in
\* which its trials were collected: every reordering of results gives the
\* same worst, best, average and tags, they equal those of the counts taken
\* in submission order, and the flag is set iff some count of this class or
\* the worst of an earlier class is above its bound.
C8_OrderIndependent ==
    pc = "aggregate" =>
        LET n == RangeLen(ranges_to_test[i + 1])
            m == maximal_number_of_comparisons
        IN  /\ \A p \in Perms(Len(results)) :
                   ClassReport(n, m, [q \in 1..Len(results) |-> results[p[q]]])
                       = ClassReport(n, m, results)
            /\ ClassReport(n, m, SubmittedCounts) = ClassReport(n, m, results)
            /\ one_of_inputs_failed <=>
                   \/ \E j \in 1..Len(Reports) :
                          Reports[j].worst.result.num > ClassBound(j)
                   \/ \E k \in 1..Len(futures) :
                          futures[k].ret.result > ClassBound(i + 1)

\* the trials were collected in the reverse of the submission order
C8_Witness ==
    /\ pc = "aggregate"
    /\ Len(results) = 2
    /\ results[1] = futures[2].ret.result
    /\ results[2] = futures[1].ret.result
    /\ results[1] > results[2]

\* C9: when a class is aggregated, worst * count >= sum >= best * count and
\* worst and best are among the collected counts; the printed report shows
\* the same relation.
C9_WorstAverageBest ==
    /\ pc = "aggregate" =>
           LET w == worst_result(results)
               b == best_result(results)
               a == average_result(results)
           IN  /\ w * a.den >= a.num /\ a.num >= b * a.den
               /\ \E q \in 1..Len(results) : results[q] = w
               /\ \E q \in 1..Len(results) : results[q] = b
               /\ \A q \in 1..Len(results) : b <= results[q] /\ results[q] <= w
    /\ \A j \in 1..Len(Reports) :
           /\ Reports[j].worst.result.num * Reports[j].average.result.den
                  >= Reports[j].average.result.num
           /\ Reports[j].average.result.num
                  >= Reports[j].best.result.num * Reports[j].average.result.den

\* a class whose counts differ
C9_Witness ==
    /\ pc = "aggregate"
    /\ Len(results) = 2
    /\ results[1] = 1 /\ results[2] = 0

\* C10: aggregation never sees an empty results list: the accepted
\* repetition count is at least 1, results is non-empty whenever the
\* aggregation is reached, max() never raises, and a class none of whose
\* trials succeeded ends the program with status 1 and without a report.
C10_NoEmptyAggregate ==
    /\ Accepted => times >= 1
    /\ pc = "aggregate" => Len(results) >= 1
    /\ \A q \in 1..Len(stderr) : stderr[q].kind # "traceback"
    /\ (/\ pc = "exited" /\ Accepted
        /\ \A k \in 1..Len(futures) : IsFatal(futures[k].ret.result))
       => /\ exit_code = 1
          /\ FatalCollected
          /\ Len(Reports) = i

\* the smallest accepted repetition count reaches the aggregation
C10_Witness ==
    /\ pc = "aggregate"
    /\ times = 1
    /\ Len(results) = 1

\* C11: every fatal condition, process failure and parse failure alike,
\* prints the input tokens of the trial that triggered it before the
\* harness exits.
C11_FatalPrintsInput ==
    \A k \in 1..Len(futures) :
        (futures[k].yielded /\ IsFatal(futures[k].ret.result))
        => \E q \in 1..Len(stderr) :
               /\ stderr[q].kind \in {"executable_failed", "modify_executable"}
               /\ "inputs" \in DOMAIN stderr[q]
               /\ stderr[q].inputs = futures[k].test_input

\* C12: once a process or parse failure has been collected, no trial of the
\* class that had not started executing is started afterwards.
C12_NoStartAfterFatal ==
    [][FatalCollected =>
          \A k \in 1..Len(futures) :
              futures[k].state = "PENDING" => futures'[k].state = "PENDING"]_vars

\* C13: if every launched executable ends and the workers are scheduled
\* fairly, the harness ends in every execution; after a fatal outcome it
\* ends with status 1, once the pool has shut down.
C13_Terminates ==
    /\ <>(pc = "exited")
    /\ FatalCollected ~> (pc = "exited" /\ exit_code = 1)

\* the harness has ended after a failure, and a trial that was never
\* collected ran to its end while the pool shut down
C13_Witness ==
    /\ pc = "exited" /\ exit_code = 1
    /\ FatalCollected
    /\ \E k \in 1..Len(futures) :
           /\ ~futures[k].yielded
           /\ futures[k].state = "FINISHED"
           /\ k \notin snapshot

\* the tag a value num / den must carry under a bound
ExpectedTag(num, den, bound) == IF num > bound * den THEN "FAIL" ELSE "OK"

\* C14: in every class report worst, best and average are each tagged FAIL
\* iff the value is strictly above the bound of the class being reported,
\* and OK iff it is at most that bound.
C14_TagsFollowClassBound ==
    \A j \in 1..Len(Reports) :
        LET r == Reports[j]
        IN  /\ r.maximal = ClassBound(j)
            /\ r.n = ranges_to_test[j].stop - ranges_to_test[j].start
            /\ r.worst.tag =
                   ExpectedTag(r.worst.result.num, r.worst.result.den, ClassBound(j))
            /\ r.best.tag =
                   ExpectedTag(r.best.result.num, r.best.result.den, ClassBound(j))
            /\ r.average.tag =
                   ExpectedTag(r.average.result.num, r.average.result.den, ClassBound(j))

\* the same worst count is above the bound of the first class and equal to
\* the bound of the second
C14_Witness ==
    /\ Len(Reports) = 2
    /\ Reports[1].worst.result.num = 1 /\ Reports[1].worst.tag = "FAIL"
    /\ Reports[2].worst.result.num = 1 /\ Reports[2].worst.tag = "OK"
    /\ Reports[1].average.tag = "FAIL" /\ Reports[1].best.tag = "OK"

\* the pieces of the --ranges text, when each is <digits>-<digits>
RangePieces == SplitRanges(argv_ranges)

\* some piece of the --ranges text has a start equal to its end as integers
HasDegenerateRange ==
    \E q \in 1..Len(RangePieces) :
        LET parts == SplitOn(RangePieces[q], "-")
        IN  /\ Len(parts) = 2
            /\ Len(parts[1]) >= 1 /\ \A c \in 1..Len(parts[1]) : parts[1][c] \in DigitSet
            /\ Len(parts[2]) >= 1 /\ \A c \in 1..Len(parts[2]) : parts[2][c] \in DigitSet
            /\ DecimalValue(parts[1]) = DecimalValue(parts[2])

\* C15: a range whose start equals its end as integers, however it is
\* spelled, is rejected before any trial runs, and every accepted range has
\* start < end.
C15_DegenerateRangeRejected ==
    /\ (pc # "parse_args" /\ HasDegenerateRange)
           => /\ pc = "exited" /\ exit_code = 2
              /\ futures = <<>> /\ test_inputs = <<>> /\ stdout = <<>>
    /\ Accepted =>
           /\ Len(ranges_to_test) >= 1
           /\ \A j \in 1..Len(ranges_to_test) :
                  /\ ~IsNone(ranges_to_test[j])
                  /\ ranges_to_test[j].start < ranges_to_test[j].stop

\* "5-05" has been rejected
C15_Witness ==
    /\ argv_ranges = <<"5", "-", "0", "5">>
    /\ pc = "exited" /\ exit_code = 2
    /\ futures = <<>>

\* C16: the final verdict line goes to stdout when all tests passed and to
\* stderr when some failed.
C16_VerdictStreams ==
    /\ \A q \in 1..Len(stdout) : stdout[q].kind # "SOME OF THE TESTS FAILED"
    /\ \A q \in 1..Len(stderr) : stderr[q].kind # "ALL OF THE TESTS PASSED"
    /\ (pc = "exited" /\ Accepted /\ ~FatalCollected) =>
           IF one_of_inputs_failed
           THEN \E q \in 1..Len(stderr) : stderr[q].kind = "SOME OF THE TESTS FAILED"
           ELSE \E q \in 1..Len(stdout) : stdout[q].kind = "ALL OF THE TESTS PASSED"

\* position of trial k in completion order
Pos(k) == CHOOSE q \in 1..Len(completed) : completed[q] = k

\* the trials of the class that have ended in a fatal outcome
FatalFinished ==
    { k \in 1..Len(futures) :
          futures[k].state = "FINISHED" /\ IsFatal(futures[k].ret.result) }

\* the fatal trials the collection loop has taken
FatalYielded == { k \in FatalFinished : futures[k].yielded }

\* the fatal messages printed so far
FatalMessages ==
    SelectSeq(stderr,
              LAMBDA e : e.kind \in {"executable_failed", "modify_executable"})

TermOf(c, d) == call[d].ret - call[c].ret

\* C18: for k = 1 and for k = 2 the argument 3k/4 is at most 1 and the
\* term ceil(log2(3k/4)) is 0 or negative.
C18_SmallTermsNonPositive ==
    \A c, d \in 1..Len(call) :
        (call[d].n \in {1, 2} /\ call[c].n = call[d].n - 1)
            => /\ value(call[d].n).num <= value(call[d].n).den
               /\ TermOf(c, d) <= 0

\* C18 as amended: for k = 1 the argument 3/4 is at most 1 and the term is
\* 0; for k = 2 the argument 3/2 is above 1 and the term is 1; no term is
\* negative.
C18_SmallTerms ==
    \A c, d \in 1..Len(call) :
        call[c].n = call[d].n - 1
            => /\ TermOf(c, d) >= 0
               /\ call[d].n = 1 =>
                      /\ value(1).num <= value(1).den
                      /\ TermOf(c, d) = 0
               /\ call[d].n = 2 =>
                      /\ value(2).num > value(2).den
                      /\ TermOf(c, d) = 1

\* the bound was computed for n = 1 and then for n = 2
C18_Witness ==
    /\ Len(call) = 2
    /\ call[1].n = 1 /\ call[1].ret = 0
    /\ call[2].n = 2 /\ call[2].ret = 1

\* the trials whose call of run_test has returned
Finished == { k \in 1..Len(futures) : futures[k].state = "FINISHED" }

\* the collected trials that came back as a Success
SuccessYielded ==
    { k \in Finished : futures[k].yielded /\ ~IsFatal(futures[k].ret.result) }

\* C19: the codes -1 and -2 never collide with a Success: every count
\* run_test returns on the success path is >= 0, so the main loop never
\* treats a Success as fatal and never appends a failure code to results.
C19_SentinelsDisjoint ==
    /\ \A k \in Finished :
           LET r == futures[k].ret
           IN  /\ r.result = RETURNCODE_ERROR <=> r.returncode # 0
               /\ r.returncode = 0 =>
                      (r.result = NO_NUMBER_OF_COMPARISONS \/ r.result >= 0)
    /\ \A q \in 1..Len(results) : results[q] >= 0
    /\ \A q \in 1..Len(stderr) :
           stderr[q].kind = "executable_failed" => stderr[q].returncode # 0
    /\ InClass =>
           /\ Len(results) = Cardinality(SuccessYielded)
           /\ \A k \in SuccessYielded :
                  /\ futures[k].ret.returncode = 0
                  /\ \E q \in 1..Len(results) : results[q] = futures[k].ret.result

\* a Success with the smallest possible count, 0, was collected and kept
C19_Witness ==
    /\ InClass
    /\ ~FatalCollected
    /\ \E k \in SuccessYielded : futures[k].ret.result = 0
    /\ \E q \in 1..Len(results) : results[q] = 0

\* C20: a class's report is produced only after all T of its trials have
\* completed and been collected: at the aggregation step results holds
\* exactly T Success counts, one per submitted trial, none lost or
\* duplicated, whatever the completion interleaving.
C20_AllCollectedBeforeReport ==
    /\ pc = "aggregate" =>
           /\ Len(futures) = times
           /\ Len(results) = times
           /\ \A k \in 1..Len(futures) :
                  /\ futures[k].state = "FINISHED"
                  /\ futures[k].yielded
                  /\ futures[k].ret.result >= 0
           /\ \E p \in Perms(times) :
                  \A q \in 1..times : results[q] = futures[p[q]].ret.result
    /\ Len(Reports) = i
    /\ \A j \in 1..Len(Reports) : Reports[j].average.result.den = times

\* the aggregation step of a class of two trials, the second collected first
C20_Witness ==
    /\ pc = "aggregate"
    /\ times = 2
    /\ results = <<0, 1>>
    /\ futures[1].ret.result = 1
    /\ futures[2].ret.result = 0

====
